---- MODULE Spec2Model ----
(***************************************************************************)
(* A model of tools/snippetmanager/snippetmanager.go: the SnippetManager   *)
(* (an in-memory name -> content map persisted as one JSON object) and the *)
(* command line built on it.                                               *)
(*                                                                         *)
(* Go strings are byte sequences: a string is modelled as a sequence of    *)
(* byte values.  The persistence file holds JSON text; the text of every   *)
(* JSON string is modelled byte by byte (as encoding/json escapes and      *)
(* unescapes it), the object around the strings structurally.              *)
(***************************************************************************)
EXTENDS Integers, Sequences, FiniteSets, TLC

\* ------------------------------------------------------------------------
\* Byte strings
\* ------------------------------------------------------------------------

Min(a, b) == IF a < b THEN a ELSE b

\* s[i..] (1-based), the rest of a byte string.
From(s, i) == SubSeq(s, i, Len(s))

\* Go's string comparison (the < of sort.Strings): bytewise lexicographic.
Less(a, b) ==
    \/ Len(a) < Len(b) /\ \A j \in 1..Len(a) : a[j] = b[j]
    \/ \E i \in 1..Min(Len(a), Len(b)) :
          a[i] < b[i] /\ \A j \in 1..(i - 1) : a[j] = b[j]

RECURSIVE Insert(_, _)
Insert(x, s) ==
    IF s = <<>> THEN <<x>>
    ELSE IF Less(x, Head(s)) THEN <<x>> \o s
    ELSE <<Head(s)>> \o Insert(x, Tail(s))

\* List as it would be without its call of sort.Strings.
SortStringsNot(keys) == keys

\* sort.Strings(keys): the keys in ascending byte order.
RECURSIVE SortStrings(_)
SortStrings(keys) ==
    IF keys = <<>> THEN <<>> ELSE Insert(Head(keys), SortStrings(Tail(keys)))

\* The orders in which ranging over a Go map with key set D can yield the keys.
IterationOrders(D) ==
    {s \in [1..Cardinality(D) -> D] : \A i, j \in 1..Cardinality(D) : s[i] = s[j] => i = j}

\* strings.Join(lines, "\n")
RECURSIVE Join(_)
Join(lines) ==
    IF lines = <<>> THEN <<>>
    ELSE IF Len(lines) = 1 THEN lines[1]
    ELSE lines[1] \o <<10>> \o Join(Tail(lines))

\* ------------------------------------------------------------------------
\* UTF-8, as encoding/json reads it
\* ------------------------------------------------------------------------

IsCont(b) == b >= 128 /\ b <= 191

\* utf8.DecodeRune at the head of a non-empty s: the size of the encoding
\* found there, or 0 when the head byte starts no valid encoding (Go then
\* yields RuneError with size 1).
RuneSize(s) ==
    LET b == s[1]
        c(i) == Len(s) >= i /\ IsCont(s[i])
    IN  IF b < 128 THEN 1
        ELSE IF b >= 194 /\ b <= 223 /\ c(2) THEN 2
        ELSE IF b >= 224 /\ b <= 239 /\ c(2) /\ c(3)
                /\ (b = 224 => s[2] >= 160) /\ (b = 237 => s[2] <= 159) THEN 3
        ELSE IF b >= 240 /\ b <= 244 /\ c(2) /\ c(3) /\ c(4)
                /\ (b = 240 => s[2] >= 144) /\ (b = 244 => s[2] <= 143) THEN 4
        ELSE 0

\* utf8.ValidString
RECURSIVE ValidUTF8(_)
ValidUTF8(s) ==
    IF s = <<>> THEN TRUE
    ELSE RuneSize(s) # 0 /\ ValidUTF8(From(s, RuneSize(s) + 1))

\* utf8.EncodeRune for a rune of the basic plane; a surrogate encodes as U+FFFD.
EncodeRune(r) ==
    IF r < 128 THEN <<r>>
    ELSE IF r < 2048 THEN <<192 + (r \div 64), 128 + (r % 64)>>
    ELSE IF r >= 55296 /\ r <= 57343 THEN <<239, 191, 189>>
    ELSE <<224 + (r \div 4096), 128 + ((r \div 64) % 64), 128 + (r % 64)>>

\* ------------------------------------------------------------------------
\* JSON string text: json.MarshalIndent's escaping, json.Unmarshal's unquoting
\* ------------------------------------------------------------------------

\* The text encoding/json writes between the quotes for the Go string s:
\* safe ASCII as it is, the short escapes, valid multi-byte runes as they
\* are, and the six bytes backslash-u-f-f-f-d for every byte that starts no valid UTF-8 encoding.
RECURSIVE Escape(_)
Escape(s) ==
    IF s = <<>> THEN <<>>
    ELSE LET b == s[1]
             n == RuneSize(s)
         IN  IF b = 10 THEN <<92, 110>> \o Escape(Tail(s))
             ELSE IF b = 13 THEN <<92, 114>> \o Escape(Tail(s))
             ELSE IF b = 9 THEN <<92, 116>> \o Escape(Tail(s))
             ELSE IF b = 34 \/ b = 92 THEN <<92, b>> \o Escape(Tail(s))
             ELSE IF n = 0 THEN <<92, 117, 102, 102, 102, 100>> \o Escape(Tail(s))
             ELSE SubSeq(s, 1, n) \o Escape(From(s, n + 1))

HexVal(b) ==
    IF b >= 48 /\ b <= 57 THEN b - 48
    ELSE IF b >= 97 /\ b <= 102 THEN b - 87
    ELSE b - 55

\* The Go string json.Unmarshal reads from the text t between two quotes.
RECURSIVE Unescape(_)
Unescape(t) ==
    IF t = <<>> THEN <<>>
    ELSE LET b == t[1]
             n == RuneSize(t)
         IN  IF b = 92 THEN
                 LET e == t[2]
                 IN  IF e = 117 THEN
                         EncodeRune(4096 * HexVal(t[3]) + 256 * HexVal(t[4])
                                    + 16 * HexVal(t[5]) + HexVal(t[6]))
                            \o Unescape(From(t, 7))
                     ELSE (IF e = 110 THEN <<10>>
                           ELSE IF e = 114 THEN <<13>>
                           ELSE IF e = 116 THEN <<9>>
                           ELSE <<e>>) \o Unescape(From(t, 3))
             ELSE IF n = 0 THEN <<239, 191, 189>> \o Unescape(Tail(t))
             ELSE SubSeq(t, 1, n) \o Unescape(From(t, n + 1))

\* ------------------------------------------------------------------------
\* sm.Snippets: a Go map[string]string, which may be nil
\* ------------------------------------------------------------------------

\* make(map[string]string)
MakeMap == [nil |-> FALSE, m |-> <<>>]

\* The nil map: reads as empty, cannot be assigned to.
NilMap == [nil |-> TRUE, m |-> <<>>]

Keys(t) == DOMAIN t.m

\* t[name] = snippet, on a map that is not nil
Put(t, name, snippet) ==
    [nil |-> FALSE,
     m   |-> [k \in Keys(t) \cup {name} |-> IF k = name THEN snippet ELSE t.m[k]]]

\* delete(t, name)
Remove(t, name) ==
    [nil |-> t.nil, m |-> [k \in Keys(t) \ {name} |-> t.m[k]]]

\* ------------------------------------------------------------------------
\* The persistence file
\* ------------------------------------------------------------------------

\* No file at sm.Filepath.
NoFile == [kind |-> "absent", pairs |-> <<>>, len |-> 0]

\* The JSON text null.
NullFile == [kind |-> "null", pairs |-> <<>>, len |-> 0]

\* Valid JSON that is no object: [] and 0.
ArrayFile == [kind |-> "array", pairs |-> <<>>, len |-> 0]
NumberFile == [kind |-> "number", pairs |-> <<>>, len |-> 0]

\* n bytes that are not one JSON value: an empty or cut file, or one value
\* followed by more text.
Garbled(n) == [kind |-> "garbled", pairs |-> <<>>, len |-> n]

\* A JSON object: its members in the order of the text.  A member is
\* [k, t, v]: the text of the key, the type of the value ("string", "null",
\* "number") and, for a string, its text.
ObjectFile(pairs) == [kind |-> "object", pairs |-> pairs, len |-> 0]

StringMember(k, v) == [k |-> k, t |-> "string", v |-> v]

RECURSIVE MembersLen(_)
MembersLen(pairs) ==
    IF pairs = <<>> THEN 0
    ELSE LET p == Head(pairs)
             vlen == IF p.t = "string" THEN Len(p.v) + 2
                     ELSE IF p.t = "null" THEN 4 ELSE 1
         IN  \* two spaces, the quoted key, colon, space, the value
             (2 + Len(p.k) + 2 + 2 + vlen) + MembersLen(Tail(pairs))

\* The number of bytes in the file, laid out as MarshalIndent(v, "", "  ")
\* lays an object out: one member a line, ",\n" between members.
DataLen(f) ==
    CASE f.kind = "absent"  -> 0
      [] f.kind = "null"    -> 4
      [] f.kind = "array"   -> 2
      [] f.kind = "number"  -> 1
      [] f.kind = "garbled" -> f.len
      [] f.kind = "object"  ->
            IF f.pairs = <<>> THEN 2
            ELSE 2 + MembersLen(f.pairs) + 2 * (Len(f.pairs) - 1) + 2

\* json.MarshalIndent(sm.Snippets, "", "  "): null for the nil map, else an
\* object with the keys sorted and every key and value escaped.
MarshalIndent(t) ==
    IF t.nil THEN NullFile
    ELSE LET keys == SortStrings(CHOOSE o \in IterationOrders(Keys(t)) : TRUE)
         IN  ObjectFile([i \in 1..Len(keys) |->
                            StringMember(Escape(keys[i]), Escape(t.m[keys[i]]))])

\* The members of a JSON object stored into the map t one after the other:
\* a later member with the same key replaces the earlier one; null and a
\* number leave the new element at its zero value "".
RECURSIVE StoreMembers(_, _)
StoreMembers(t, pairs) ==
    IF pairs = <<>> THEN t
    ELSE LET p == Head(pairs)
             val == IF p.t = "string" THEN Unescape(p.v) ELSE <<>>
         IN  StoreMembers(Put(t, Unescape(p.k), val), Tail(pairs))

\* json.Unmarshal(data, &sm.Snippets): the map afterwards and the error.
\* The text is validated before anything is stored; null sets the map to
\* nil; an object is stored into the map that is there (a nil map is made
\* first), keeping the entries it already has.
Unmarshal(t, f) ==
    CASE f.kind = "garbled" -> [Snippets |-> t, err |-> "syntax"]
      [] f.kind = "null"    -> [Snippets |-> NilMap, err |-> "nil"]
      [] f.kind \in {"array", "number"} -> [Snippets |-> t, err |-> "type"]
      [] f.kind = "object"  ->
            [Snippets |-> StoreMembers([nil |-> FALSE, m |-> t.m], f.pairs),
             err |-> IF \E i \in 1..Len(f.pairs) : f.pairs[i].t = "number"
                     THEN "type" ELSE "nil"]

\* Load as it would be without line 63: a missing file leaves the map as it is.
LoadKeepsMap(t, f, readFails) ==
    IF f.kind = "absent" THEN [Snippets |-> t, err |-> "nil"]
    ELSE IF readFails THEN [Snippets |-> t, err |-> "io"]
    ELSE Unmarshal(t, f)

\* SnippetManager.Load.  readFails: ioutil.ReadFile fails on a file that exists.
Load(t, f, readFails) ==
    IF f.kind = "absent" THEN [Snippets |-> MakeMap, err |-> "nil"]
    ELSE IF readFails THEN [Snippets |-> t, err |-> "io"]
    ELSE Unmarshal(t, f)

\* ioutil.WriteFile opens with O_WRONLY|O_CREATE|O_TRUNC: the file exists
\* and is empty.
OpenTrunc(f) == Garbled(0)

\* ioutil.WriteFile's one Write of data at offset 0 of the file just opened:
\* what was written there since the open, beyond the end of data, stays.
WriteAt0(cur, data) ==
    IF DataLen(cur) <= DataLen(data) THEN data ELSE Garbled(DataLen(cur))

\* What ioutil.WriteFile can do.
WriteOutcomes == {"ok", "open fails", "write fails"}

\* SnippetManager.Save, run without another process in between: the file
\* afterwards and the error.
Save(t, f, outcome) ==
    CASE outcome = "ok" ->
            [file |-> WriteAt0(OpenTrunc(f), MarshalIndent(t)), err |-> "nil"]
      [] outcome = "open fails"  -> [file |-> f, err |-> "io"]
      [] outcome = "write fails" -> [file |-> OpenTrunc(f), err |-> "io"]

\* ------------------------------------------------------------------------
\* Output
\* ------------------------------------------------------------------------

\* One line printed with fmt.Println or fmt.Printf: the constant text and
\* the string printed with it.
Line(text, arg) == [text |-> text, arg |-> arg]

\* ------------------------------------------------------------------------
\* The SnippetManager's methods
\* ------------------------------------------------------------------------

\* SnippetManager.List: the lines printed, when ranging over the map yields
\* the keys in the given order.
List(t, order) ==
    IF Cardinality(Keys(t)) = 0
    THEN <<Line("No snippets saved.", <<>>)>>
    ELSE LET keys == SortStrings(order)
         IN  <<Line("Saved snippets:", <<>>)>>
                \o [i \in 1..Len(keys) |-> Line("- ", keys[i])]

\* Show as it would be without the test of ok: a missing entry prints as
\* the empty string, the zero value the map lookup gives.
ShowZeroValue(t, name) ==
    <<Line("%s", IF name \in Keys(t) THEN t.m[name] ELSE <<>>)>>

\* SnippetManager.Show: the line printed.
Show(t, name) ==
    IF name \notin Keys(t)
    THEN <<Line("Snippet '%s' not found.", name)>>
    ELSE <<Line("%s", t.m[name])>>

\* The index of the first newline byte of data, 0 when there is none.
IndexLF(data) ==
    IF \E i \in 1..Len(data) : data[i] = 10
    THEN CHOOSE i \in 1..Len(data) : data[i] = 10 /\ \A j \in 1..(i - 1) : data[j] # 10
    ELSE 0

\* bufio's dropCR: a line without its one trailing carriage return.
DropCR(line) ==
    IF Len(line) > 0 /\ line[Len(line)] = 13 THEN SubSeq(line, 1, Len(line) - 1) ELSE line

\* The loop of Add as it would be with continue for break: an empty line is
\* skipped and the lines after it are kept too.
RECURSIVE ReadLinesSkipEmpty(_)
ReadLinesSkipEmpty(stdin) ==
    IF stdin = <<>> THEN <<>>
    ELSE LET i == IndexLF(stdin)
             line == DropCR(IF i = 0 THEN stdin ELSE SubSeq(stdin, 1, i - 1))
             rest == IF i = 0 THEN <<>> ELSE From(stdin, i + 1)
         IN  IF line = <<>> THEN ReadLinesSkipEmpty(rest)
             ELSE <<line>> \o ReadLinesSkipEmpty(rest)

\* The loop of Add: scanner.Scan() with bufio.ScanLines gives the text up to
\* the next newline, or up to the end of the input, without its trailing
\* carriage return; the loop keeps the lines until the first empty one or
\* the end of the input.
RECURSIVE ReadLines(_)
ReadLines(stdin) ==
    IF stdin = <<>> THEN <<>>
    ELSE LET i == IndexLF(stdin)
             line == DropCR(IF i = 0 THEN stdin ELSE SubSeq(stdin, 1, i - 1))
             rest == IF i = 0 THEN <<>> ELSE From(stdin, i + 1)
         IN  IF line = <<>> THEN <<>> ELSE <<line>> \o ReadLines(rest)

\* Add as it would be if it kept the content a name already has.
AddEntryKeepsOld(t, name, stdin, scanFails) ==
    IF scanFails THEN [Snippets |-> t, err |-> "scan"]
    ELSE IF t.nil THEN [Snippets |-> t, err |-> "panic"]
    ELSE IF name \in Keys(t) THEN [Snippets |-> t, err |-> "nil"]
    ELSE [Snippets |-> Put(t, name, Join(ReadLines(stdin))), err |-> "nil"]

\* Add up to its call of Save.  scanFails: scanner.Err() is not nil (a read
\* error, a line longer than the scanner's buffer).  Assigning to an entry
\* of the nil map panics.
AddEntry(t, name, stdin, scanFails) ==
    IF scanFails THEN [Snippets |-> t, err |-> "scan"]
    ELSE IF t.nil THEN [Snippets |-> t, err |-> "panic"]
    ELSE [Snippets |-> Put(t, name, Join(ReadLines(stdin))), err |-> "nil"]

\* SnippetManager.Add, run without another process in between.
Add(t, f, name, stdin, scanFails, outcome) ==
    LET a == AddEntry(t, name, stdin, scanFails)
        s == Save(a.Snippets, f, outcome)
    IN  IF a.err # "nil" THEN [Snippets |-> a.Snippets, file |-> f, err |-> a.err]
        ELSE [Snippets |-> a.Snippets, file |-> s.file, err |-> s.err]

\* Delete as it would be without its check: a missing name is no error.
DeleteEntryNoCheck(t, name) == [Snippets |-> Remove(t, name), err |-> "nil"]

\* Delete up to its call of Save.
DeleteEntry(t, name) ==
    IF name \notin Keys(t) THEN [Snippets |-> t, err |-> "not found"]
    ELSE [Snippets |-> Remove(t, name), err |-> "nil"]

\* SnippetManager.Delete, run without another process in between.
Delete(t, f, name, outcome) ==
    LET d == DeleteEntry(t, name)
        s == Save(d.Snippets, f, outcome)
    IN  IF d.err # "nil" THEN [Snippets |-> d.Snippets, file |-> f, err |-> d.err]
        ELSE [Snippets |-> d.Snippets, file |-> s.file, err |-> s.err]

\* ------------------------------------------------------------------------
\* The values the model runs on
\* ------------------------------------------------------------------------

\* Snippet names: "a", "b".
Names == {<<97>>, <<98>>}

\* What is typed to Add: nothing, and "a\r\n", a line holding the one byte
\* 0xFF (no valid UTF-8), "\n", "\n", "b".
StdinCases == {<<>>, <<97, 13, 10, 255, 10, 10, 98>>}

\* What can be at sm.Filepath before the first call: nothing, JSON that is
\* no object, an empty file, {"a": null}, {"a": 1}, {"a": "", "b": "a\n<U+FFFD>"}.
InitFiles ==
    {NoFile, NullFile, ArrayFile, NumberFile, Garbled(0),
     ObjectFile(<<[k |-> <<97>>, t |-> "null", v |-> <<>>]>>),
     ObjectFile(<<[k |-> <<97>>, t |-> "number", v |-> <<>>]>>),
     ObjectFile(<<StringMember(<<97>>, <<>>), StringMember(<<98>>, <<97, 92, 110, 239, 191, 189>>)>>)}

\* The processes: one SnippetManager each.
Procs == {"p", "q"}

\* The SnippetManager whose methods the specification Spec calls.
Sm == "p"

\* ------------------------------------------------------------------------
\* State
\* ------------------------------------------------------------------------

VARIABLES
    file,      \* the content of the persistence file
    Snippets,  \* Snippets[p]: sm.Snippets of process p
    stdout,    \* stdout[p]: the lines p printed to standard output
    stderr,    \* stderr[p]: the lines p printed to standard error
    pc,        \* pc[p]: where p is in main
    argv,      \* argv[p]: os.Args[1:] of p
    exitCode,  \* exitCode[p]: the exit code of p, -1 while it has none
    last,      \* the last method call: its name, arguments and result
    started,   \* the number of invocations started
    initFile,  \* the content of the file before the first invocation
    startFile, \* startFile[p]: the content of the file when p was started
    ideal,     \* the add and delete invocations that exited 0, applied in order
    clean,     \* no Save has failed
    fresh,     \* fresh[p]: p loaded before any process opened the file to save
    saving,    \* some process has opened the file to save
    overlap,   \* a process opened the file while another was between open and write
    lastWriter, \* the process whose Save wrote last
    current    \* the process started last

store == <<file, Snippets, stdout>>
procs == <<stderr, pc, argv, exitCode>>
ghost == <<started, initFile, startFile, ideal, clean, fresh, saving, overlap, lastWriter, current>>
vars == <<store, last, procs, ghost>>

\* A method call, for last: its arguments, its error, and of the state it was
\* made in: before, the number of entries; had and old, whether name had an
\* entry and its content; follows, whether the call before it was an Add or
\* a Delete of the same name that changed the map.
Call(op, name, stdin, err, t) ==
    [op |-> op, name |-> name, stdin |-> stdin, err |-> err,
     before |-> Cardinality(Keys(t)),
     had |-> name \in Keys(t),
     old |-> IF name \in Keys(t) THEN t.m[name] ELSE <<>>,
     follows |-> /\ last.op \in {"Add", "Delete"}
                 /\ last.name = name
                 /\ last.err \notin {"scan", "panic", "not found"}]

NoCall ==
    [op |-> "new", name |-> <<>>, stdin |-> <<>>, err |-> "nil",
     before |-> 0, had |-> FALSE, old |-> <<>>, follows |-> FALSE]

\* The table a first invocation loads from file f (empty when it cannot).
Loaded(f) ==
    LET r == Load(MakeMap, f, FALSE) IN IF r.err = "nil" THEN r.Snippets ELSE MakeMap

InitWith(files, tables) ==
    /\ file \in files
    /\ \E t \in tables : Snippets = [p \in Procs |-> IF p = Sm THEN t ELSE MakeMap]
    /\ stdout = [p \in Procs |-> <<>>]
    /\ stderr = [p \in Procs |-> <<>>]
    /\ pc = [p \in Procs |-> "idle"]
    /\ argv = [p \in Procs |-> <<>>]
    /\ exitCode = [p \in Procs |-> -1]
    /\ last = NoCall
    /\ started = 0
    /\ initFile = file
    /\ startFile = [p \in Procs |-> file]
    /\ ideal = Loaded(file)
    /\ clean = TRUE
    /\ fresh = [p \in Procs |-> FALSE]
    /\ saving = FALSE
    /\ overlap = FALSE
    /\ lastWriter = "none"
    /\ current = "none"

\* NewSnippetManager: an empty map; the file is whatever is on the disk.
Init == InitWith(InitFiles, {MakeMap})

\* ------------------------------------------------------------------------
\* Spec: the methods of one SnippetManager, called in any order
\* ------------------------------------------------------------------------

CallLoad ==
    \E readFails \in BOOLEAN :
        LET r == Load(Snippets[Sm], file, readFails)
        IN  /\ Snippets' = [Snippets EXCEPT ![Sm] = r.Snippets]
            /\ stdout' = [stdout EXCEPT ![Sm] = <<>>]
            /\ last' = Call("Load", <<>>, <<>>, r.err, Snippets[Sm])
            /\ UNCHANGED file

CallSave ==
    \E outcome \in WriteOutcomes :
        LET r == Save(Snippets[Sm], file, outcome)
        IN  /\ file' = r.file
            /\ stdout' = [stdout EXCEPT ![Sm] = <<>>]
            /\ last' = Call("Save", <<>>, <<>>, r.err, Snippets[Sm])
            /\ UNCHANGED Snippets

CallList ==
    \E order \in IterationOrders(Keys(Snippets[Sm])) :
        /\ stdout' = [stdout EXCEPT ![Sm] = List(Snippets[Sm], order)]
        /\ last' = Call("List", <<>>, <<>>, "nil", Snippets[Sm])
        /\ UNCHANGED <<file, Snippets>>

\* What can go wrong in one Add: <<scanFails, outcome>>.
AddFaults == {<<TRUE, "ok">>} \cup {<<FALSE, o>> : o \in WriteOutcomes}

CallAdd(name, stdin) ==
    \E fault \in AddFaults :
        LET r == Add(Snippets[Sm], file, name, stdin, fault[1], fault[2])
        IN  /\ Snippets' = [Snippets EXCEPT ![Sm] = r.Snippets]
            /\ file' = r.file
            /\ stdout' = [stdout EXCEPT ![Sm] =
                            <<Line("Paste your snippet. End input with an empty line:", <<>>)>>]
            /\ last' = Call("Add", name, stdin, r.err, Snippets[Sm])

CallShow(name) ==
    /\ stdout' = [stdout EXCEPT ![Sm] = Show(Snippets[Sm], name)]
    /\ last' = Call("Show", name, <<>>, "nil", Snippets[Sm])
    /\ UNCHANGED <<file, Snippets>>

CallDelete(name) ==
    \E outcome \in WriteOutcomes :
        LET r == Delete(Snippets[Sm], file, name, outcome)
        IN  /\ Snippets' = [Snippets EXCEPT ![Sm] = r.Snippets]
            /\ file' = r.file
            /\ stdout' = [stdout EXCEPT ![Sm] = <<>>]
            /\ last' = Call("Delete", name, <<>>, r.err, Snippets[Sm])

DoLoad == CallLoad /\ UNCHANGED <<procs, ghost>>
DoSave == CallSave /\ UNCHANGED <<procs, ghost>>
DoList == CallList /\ UNCHANGED <<procs, ghost>>
DoAdd == \E name \in Names, stdin \in StdinCases : CallAdd(name, stdin) /\ UNCHANGED <<procs, ghost>>
DoShow == \E name \in Names : CallShow(name) /\ UNCHANGED <<procs, ghost>>
DoDelete == \E name \in Names : CallDelete(name) /\ UNCHANGED <<procs, ghost>>

Next == DoLoad \/ DoSave \/ DoList \/ DoAdd \/ DoShow \/ DoDelete

Spec == Init /\ [][Next]_vars

\* ------------------------------------------------------------------------
\* Claims about the methods (Spec)
\* ------------------------------------------------------------------------

\* The table of the manager, as a function from names to contents.
Table == Snippets[Sm].m

\* s without every carriage return that stands right before a newline or at
\* the end: the input with its line ends (LF or CR LF) written as LF.
RECURSIVE StripCR(_)
StripCR(s) ==
    IF s = <<>> THEN <<>>
    ELSE IF s[1] = 13 /\ (Len(s) = 1 \/ s[2] = 10) THEN StripCR(Tail(s))
    ELSE <<s[1]>> \o StripCR(Tail(s))

\* b is the text of the input before its first empty line: b starts the
\* input, holds no empty line, and is followed by the end of the input, by
\* the end of the last line, or by an empty line.
IsBodyOf(b, stdin) ==
    LET n == StripCR(stdin)
        r == From(n, Len(b) + 1)
    IN  /\ Len(b) <= Len(n)
        /\ SubSeq(n, 1, Len(b)) = b
        /\ b # <<>> => b[1] # 10 /\ b[Len(b)] # 10
        /\ \A i \in 1..(Len(b) - 1) : ~(b[i] = 10 /\ b[i + 1] = 10)
        /\ IF b = <<>> THEN r = <<>> \/ r[1] = 10
           ELSE r = <<>> \/ r = <<10>> \/ (Len(r) >= 2 /\ r[1] = 10 /\ r[2] = 10)

\* A step that is a call of method op.
IsCall(op) == last'.op = op

\* C1: a Save that succeeds followed by a Load that succeeds leaves the
\* manager with exactly the name -> content mapping it had.
C1_SaveLoadRoundTrip ==
    [][(last.op = "Save" /\ last.err = "nil" /\ IsCall("Load") /\ last'.err = "nil")
          => Snippets'[Sm] = Snippets[Sm]]_vars

\* Every name and body of the table is valid UTF-8.
ValidTable(t) == \A k \in Keys(t) : ValidUTF8(k) /\ ValidUTF8(t.m[k])

\* C1 restricted to tables of valid UTF-8: there the round trip holds.
C1_ValidUTF8RoundTrip ==
    [][(last.op = "Save" /\ last.err = "nil" /\ ValidTable(Snippets[Sm])
          /\ IsCall("Load") /\ last'.err = "nil")
          => Snippets'[Sm] = Snippets[Sm]]_vars

\* C3: Add on a name that has an entry overwrites it: afterwards the name
\* has the content typed (so no longer the old one), the other entries are
\* as they were, and a file saved without error holds one member for the name.
C3_AddOverwrites ==
    [][(IsCall("Add") /\ last'.err \notin {"scan", "panic"} /\ last'.name \in DOMAIN Table)
          => /\ DOMAIN Table' = DOMAIN Table
             /\ IsBodyOf(Table'[last'.name], last'.stdin)
             /\ \A y \in DOMAIN Table \ {last'.name} : Table'[y] = Table[y]
             /\ last'.err = "nil" =>
                   /\ file'.kind = "object"
                   /\ Cardinality({i \in 1..Len(file'.pairs) :
                                      Unescape(file'.pairs[i].k) = last'.name}) = 1]_vars

\* C3's case: an Add has replaced the content of a name by a different one.
C3_Witness ==
    /\ last.op = "Add" /\ last.err = "nil"
    /\ last.had /\ last.old # Table[last.name]
    /\ Cardinality(DOMAIN Table) = 2

\* C4: Delete of a name without an entry returns the not-found error and
\* leaves the map and the file as they are; Delete of a name with an entry
\* removes that entry and no other, and a Show of the name right after it
\* prints the not-found notice.
C4_Delete ==
    [][/\ (IsCall("Delete") /\ last'.name \notin DOMAIN Table)
          => last'.err = "not found" /\ Snippets' = Snippets /\ file' = file
       /\ (IsCall("Delete") /\ last'.name \in DOMAIN Table)
          => /\ last'.err # "not found"
             /\ DOMAIN Table' = DOMAIN Table \ {last'.name}
             /\ \A y \in DOMAIN Table' : Table'[y] = Table[y]
       /\ (last.op = "Delete" /\ last.err # "not found" /\ IsCall("Show")
           /\ last'.name = last.name)
          => stdout'[Sm] = <<Line("Snippet '%s' not found.", last.name)>>]_vars

\* C4's case: a Show right after a Delete that removed one of two entries.
C4_Witness ==
    /\ last.op = "Show" /\ last.follows /\ ~last.had
    /\ stdout[Sm] = <<Line("Snippet '%s' not found.", last.name)>>
    /\ Cardinality(DOMAIN Table) = 1

\* C5: a Load made while there is no file returns no error and leaves the
\* map empty, whatever it held.
C5_LoadWithoutFile ==
    (last.op = "Load" /\ file.kind = "absent")
       => last.err = "nil" /\ Snippets[Sm] = MakeMap

\* C5's case: a Load without a file on a manager that held entries.
C5_Witness ==
    last.op = "Load" /\ file.kind = "absent" /\ last.before > 0

\* ------------------------------------------------------------------------
\* SpecAdd: on a manager holding some table, one Add of any input of at
\* most MaxStdinLen bytes, then one Show
\* ------------------------------------------------------------------------

MaxStdinLen == 5

\* The bytes typed: "a", newline, carriage return, 0xFF.
StdinBytes == {97, 10, 13, 255}

Stdins == UNION {[1..n -> StdinBytes] : n \in 0..MaxStdinLen}

\* The tables Add is called on: the empty one, {"a": "b"}, {"a": "", "b": "b"}.
PriorTables ==
    {MakeMap, Put(MakeMap, <<97>>, <<98>>), Put(Put(MakeMap, <<97>>, <<>>), <<98>>, <<98>>)}

InitAdd == InitWith({NoFile}, PriorTables)

FirstAdd ==
    /\ last.op = "new"
    /\ \E name \in Names, stdin \in Stdins : CallAdd(name, stdin)
    /\ UNCHANGED <<procs, ghost>>

ThenShow ==
    /\ last.op = "Add"
    /\ \E name \in Names : CallShow(name)
    /\ UNCHANGED <<procs, ghost>>

NextAdd == FirstAdd \/ ThenShow

SpecAdd == InitAdd /\ [][NextAdd]_vars

\* C2: a Show of the name right after an Add prints exactly the content
\* typed: the text of the input before its first empty line, the lines
\* joined by one newline each (a line ends with LF or CR LF).
C2_AddThenShow ==
    [][(last.op = "Add" /\ last.err \notin {"scan", "panic"} /\ IsCall("Show")
        /\ last'.name = last.name)
          => /\ Len(stdout'[Sm]) = 1
             /\ stdout'[Sm][1].text = "%s"
             /\ IsBodyOf(stdout'[Sm][1].arg, last.stdin)]_vars

\* C2's case: the Show after an Add of two lines prints them joined.
C2_Witness ==
    /\ last.op = "Show" /\ last.follows
    /\ stdout[Sm] = <<Line("%s", <<97, 10, 97>>)>>

\* ------------------------------------------------------------------------
\* SpecList: List on a table of at most MaxListed names
\* ------------------------------------------------------------------------

MaxListed == 4

\* Names to list: "", "B", "a", "ab", "b", and the one byte 0xFF.
ListNames == {<<>>, <<66>>, <<97>>, <<97, 98>>, <<98>>, <<255>>}

ListTables ==
    {NilMap} \cup
    {[nil |-> FALSE, m |-> [k \in D |-> <<>>]] :
        D \in {K \in SUBSET ListNames : Cardinality(K) <= MaxListed}}

InitList == InitWith({NoFile}, ListTables)

OneList == last.op = "new" /\ CallList /\ UNCHANGED <<procs, ghost>>

SpecList == InitList /\ [][OneList]_vars

\* a comes strictly before b in byte order.
RECURSIVE Precedes(_, _)
Precedes(a, b) ==
    IF b = <<>> THEN FALSE
    ELSE IF a = <<>> THEN TRUE
    ELSE IF a[1] # b[1] THEN a[1] < b[1]
    ELSE Precedes(Tail(a), Tail(b))

\* C8: List prints the one notice "No snippets saved." for an empty table;
\* for any other it prints, after the heading, one line "- <name>" for every
\* name, each name once, in strictly ascending byte order; it changes
\* neither the table nor the file.
C8_List ==
    [][IsCall("List") =>
         LET out == stdout'[Sm]
             K == DOMAIN Table
         IN  /\ Snippets' = Snippets /\ file' = file
             /\ K = {} => out = <<Line("No snippets saved.", <<>>)>>
             /\ K # {} =>
                   /\ Len(out) = Cardinality(K) + 1
                   /\ out[1] = Line("Saved snippets:", <<>>)
                   /\ \A i \in 2..Len(out) : out[i].text = "- " /\ out[i].arg \in K
                   /\ \A k \in K : Cardinality({i \in 2..Len(out) : out[i].arg = k}) = 1
                   /\ \A i \in 2..(Len(out) - 1) : Precedes(out[i].arg, out[i + 1].arg)]_vars

\* C8's case: four names listed, the upper-case one before the lower-case
\* ones and the name "a" before the name "ab".
C8_Witness ==
    /\ last.op = "List"
    /\ Len(stdout[Sm]) = 5
    /\ stdout[Sm][2].arg = <<66>>
    /\ stdout[Sm][3].arg = <<97>>
    /\ stdout[Sm][4].arg = <<97, 98>>
    /\ stdout[Sm][5].arg = <<255>>

\* ------------------------------------------------------------------------
\* main: one process per invocation
\* ------------------------------------------------------------------------

MaxInvocations == 3

\* os.Args[1:]: nothing, a command alone, a command and a name.
Argvs ==
    {<<>>} \cup {<<c>> : c \in {"list", "add", "show", "delete", "help"}}
           \cup {<<c, n>> : c \in {"add", "show", "delete"}, n \in Names}

\* printUsage
Usage ==
    <<Line("Micro Snippet Manager - Manage code snippets for micro editor", <<>>),
      Line("Usage:", <<>>),
      Line("  snippetmanager list                 # List all snippets", <<>>),
      Line("  snippetmanager add <name>           # Add snippet (input from stdin)", <<>>),
      Line("  snippetmanager show <name>          # Show snippet content", <<>>),
      Line("  snippetmanager delete <name>        # Delete snippet", <<>>),
      Line("", <<>>),
      Line("Snippets are stored in ~/.config/micro/snippets.json", <<>>)>>

Running(p) == pc[p] \in {"load", "run", "open", "write"}

\* p prints out and err and goes on at the control point to.
Goes(p, to, out, err) ==
    /\ pc' = [pc EXCEPT ![p] = to]
    /\ stdout' = [stdout EXCEPT ![p] = @ \o out]
    /\ stderr' = [stderr EXCEPT ![p] = @ \o err]

\* p prints out and err and exits with code.
Exits(p, code, out, err) ==
    /\ Goes(p, "done", out, err)
    /\ exitCode' = [exitCode EXCEPT ![p] = code]

\* A process is started: main runs NewSnippetManager.
Start(p) ==
    /\ ~Running(p)
    /\ started < MaxInvocations
    /\ \E args \in Argvs : argv' = [argv EXCEPT ![p] = args]
    /\ Snippets' = [Snippets EXCEPT ![p] = MakeMap]
    /\ pc' = [pc EXCEPT ![p] = "load"]
    /\ stdout' = [stdout EXCEPT ![p] = <<>>]
    /\ stderr' = [stderr EXCEPT ![p] = <<>>]
    /\ exitCode' = [exitCode EXCEPT ![p] = -1]
    /\ started' = started + 1
    /\ startFile' = [startFile EXCEPT ![p] = file]
    /\ fresh' = [fresh EXCEPT ![p] = FALSE]
    /\ current' = p
    /\ UNCHANGED <<file, last, initFile, ideal, clean, saving, overlap, lastWriter>>

\* main, lines 190 to 194: Load, and exit 1 when it fails.
MainLoad(p) ==
    /\ pc[p] = "load"
    /\ \E readFails \in BOOLEAN :
          LET r == Load(Snippets[p], file, readFails)
          IN  /\ Snippets' = [Snippets EXCEPT ![p] = r.Snippets]
              /\ IF r.err # "nil"
                 THEN Exits(p, 1, <<>>, <<Line("Error loading snippets: %v", <<>>)>>)
                 ELSE Goes(p, "run", <<>>, <<>>) /\ UNCHANGED exitCode
    /\ fresh' = [fresh EXCEPT ![p] = ~saving]
    /\ UNCHANGED <<file, last, argv, started, initFile, startFile, ideal, clean,
                   saving, overlap, lastWriter, current>>

Prompt == <<Line("Paste your snippet. End input with an empty line:", <<>>)>>

NameMissing == <<Line("Please provide snippet name.", <<>>)>>

\* main, lines 196 to 238, up to the call of Save in Add and Delete.
MainRun(p) ==
    /\ pc[p] = "run"
    /\ LET args == argv[p]
           t == Snippets[p]
           cmd == IF Len(args) < 1 THEN "" ELSE args[1]
       IN  IF Len(args) < 1 \/ cmd \notin {"list", "add", "show", "delete"}
           THEN Exits(p, 1, Usage, <<>>) /\ UNCHANGED Snippets
           ELSE IF cmd = "list"
           THEN /\ \E order \in IterationOrders(Keys(t)) : Exits(p, 0, List(t, order), <<>>)
                /\ UNCHANGED Snippets
           ELSE IF Len(args) < 2
           THEN Exits(p, 1, NameMissing, <<>>) /\ UNCHANGED Snippets
           ELSE IF cmd = "show"
           THEN Exits(p, 0, Show(t, args[2]), <<>>) /\ UNCHANGED Snippets
           ELSE IF cmd = "add"
           THEN \E stdin \in StdinCases, scanFails \in BOOLEAN :
                   LET a == AddEntry(t, args[2], stdin, scanFails)
                   IN  /\ Snippets' = [Snippets EXCEPT ![p] = a.Snippets]
                       /\ CASE a.err = "scan" ->
                                 Exits(p, 1, Prompt, <<Line("Error adding snippet: %v", <<>>)>>)
                            [] a.err = "panic" ->
                                 Exits(p, 2, Prompt,
                                       <<Line("panic: assignment to entry in nil map", <<>>)>>)
                            [] a.err = "nil" ->
                                 Goes(p, "open", Prompt, <<>>) /\ UNCHANGED exitCode
           ELSE LET d == DeleteEntry(t, args[2])
                IN  /\ Snippets' = [Snippets EXCEPT ![p] = d.Snippets]
                    /\ IF d.err # "nil"
                       THEN Exits(p, 1, <<>>,
                                  <<Line("Error deleting snippet: Snippet '%s' not found", args[2])>>)
                       ELSE Goes(p, "open", <<>>, <<>>) /\ UNCHANGED exitCode
    /\ UNCHANGED <<file, last, argv, ghost>>

\* The line main prints to standard error when Add or Delete returns the
\* error of Save.
SaveError(p) ==
    <<Line(IF argv[p][1] = "add" THEN "Error adding snippet: %v"
           ELSE "Error deleting snippet: %v", <<>>)>>

\* Save, first half: ioutil.WriteFile opens the file and truncates it.
SaveOpen(p) ==
    /\ pc[p] = "open"
    /\ \E ok \in BOOLEAN :
          IF ok
          THEN /\ file' = OpenTrunc(file)
               /\ Goes(p, "write", <<>>, <<>>)
               /\ saving' = TRUE
               /\ overlap' = (overlap \/ \E q \in Procs \ {p} : pc[q] = "write")
               /\ UNCHANGED <<exitCode, clean>>
          ELSE /\ Exits(p, 1, <<>>, SaveError(p))
               /\ clean' = FALSE
               /\ UNCHANGED <<file, saving, overlap>>
    /\ UNCHANGED <<Snippets, last, argv, started, initFile, startFile, ideal, fresh,
                   lastWriter, current>>

\* Save, second half: ioutil.WriteFile writes the JSON text and closes the
\* file; main prints the result and returns.
SaveWrite(p) ==
    /\ pc[p] = "write"
    /\ \E ok \in BOOLEAN :
          IF ok
          THEN /\ file' = WriteAt0(file, MarshalIndent(Snippets[p]))
               /\ Exits(p, 0,
                        <<Line(IF argv[p][1] = "add" THEN "Snippet '%s' added."
                               ELSE "Snippet '%s' deleted.", argv[p][2])>>, <<>>)
               /\ lastWriter' = p
               /\ ideal' = IF argv[p][1] = "add"
                           THEN Put(ideal, argv[p][2], Snippets[p].m[argv[p][2]])
                           ELSE Remove(ideal, argv[p][2])
               /\ UNCHANGED clean
          ELSE /\ Exits(p, 1, <<>>, SaveError(p))
               /\ clean' = FALSE
               /\ UNCHANGED <<file, lastWriter, ideal>>
    /\ UNCHANGED <<Snippets, last, argv, started, initFile, startFile, fresh,
                   saving, overlap, current>>

\* ------------------------------------------------------------------------
\* SpecCLI: invocations one after the other
\* ------------------------------------------------------------------------

\* The user starts a command when no other is running.
StartAlone == \E p \in Procs : (\A q \in Procs : ~Running(q)) /\ Start(p)
Loads == \E p \in Procs : MainLoad(p)
Runs == \E p \in Procs : MainRun(p)
Opens == \E p \in Procs : SaveOpen(p)
Writes == \E p \in Procs : SaveWrite(p)

NextCLI == StartAlone \/ Loads \/ Runs \/ Opens \/ Writes

SpecCLI == Init /\ [][NextCLI]_vars

\* ------------------------------------------------------------------------
\* SpecRace: two invocations, each started at any time
\* ------------------------------------------------------------------------

StartAny == \E p \in Procs : pc[p] = "idle" /\ Start(p)

NextRace == StartAny \/ Loads \/ Runs \/ Opens \/ Writes

SpecRace == Init /\ [][NextRace]_vars

\* ------------------------------------------------------------------------
\* Claims about the command line (SpecCLI, SpecRace)
\* ------------------------------------------------------------------------

\* The file holds something other than a JSON object of string members.
NotStringObject(f) ==
    \/ f.kind \in {"garbled", "null", "array", "number"}
    \/ f.kind = "object" /\ \E i \in 1..Len(f.pairs) : f.pairs[i].t # "string"

LoadErrorOnly(p) ==
    /\ pc[p] = "done"
    /\ exitCode[p] # 0
    /\ stderr[p] = <<Line("Error loading snippets: %v", <<>>)>>
    /\ stdout[p] = <<>>
    /\ file = startFile[p]

\* C6: a process started on a file that holds something other than a JSON
\* object of string members gets no further than Load: it exits non-zero
\* with the load error, runs no command and leaves the file as it is.
C6_BadFileAborts ==
    \A p \in Procs :
        (NotStringObject(startFile[p]) /\ pc[p] \in {"run", "open", "write", "done"})
           => LoadErrorOnly(p)

\* C6 restricted to files that are no JSON, are an array or a number, or
\* have a member that is a number: there the process aborts as stated.
C6_UnparseableAborts ==
    \A p \in Procs :
        (/\ \/ startFile[p].kind \in {"garbled", "array", "number"}
            \/ /\ startFile[p].kind = "object"
               /\ \E i \in 1..Len(startFile[p].pairs) : startFile[p].pairs[i].t = "number"
         /\ pc[p] \in {"run", "open", "write", "done"})
           => LoadErrorOnly(p)

\* C7: after a Load without error, show of a name that has no entry prints
\* the not-found notice to standard output and exits 0; delete of such a
\* name prints the error to standard error and exits non-zero.
C7_ShowDeleteAsymmetry ==
    [][\A p \in Procs :
          (/\ pc[p] = "run" /\ pc'[p] # "run"
           /\ Len(argv[p]) >= 2
           /\ argv[p][1] \in {"show", "delete"}
           /\ argv[p][2] \notin Keys(Snippets[p]))
          => /\ pc'[p] = "done"
             /\ argv[p][1] = "show" =>
                   /\ exitCode'[p] = 0
                   /\ stdout'[p] = <<Line("Snippet '%s' not found.", argv[p][2])>>
                   /\ stderr'[p] = <<>>
             /\ argv[p][1] = "delete" =>
                   /\ exitCode'[p] # 0
                   /\ stdout'[p] = <<>>
                   /\ stderr'[p] =
                         <<Line("Error deleting snippet: Snippet '%s' not found", argv[p][2])>>
             /\ file' = file]_vars

\* C7's case: one process has run show, the other delete, of the same name
\* without an entry, after loading a table that has another entry.
C7_Witness ==
    \E p, q \in Procs :
        /\ pc[p] = "done" /\ argv[p] = <<"show", <<98>>>> /\ exitCode[p] = 0
        /\ stdout[p] = <<Line("Snippet '%s' not found.", <<98>>)>>
        /\ pc[q] = "done" /\ argv[q] = <<"delete", <<98>>>> /\ exitCode[q] = 1
        /\ stderr[q] = <<Line("Error deleting snippet: Snippet '%s' not found", <<98>>)>>
        /\ Keys(Snippets[p]) = {<<97>>} /\ Keys(Snippets[q]) = {<<97>>}

Mutates(p) == Len(argv[p]) = 2 /\ argv[p][1] \in {"add", "delete"}

\* The table the file gives to a Load into a new manager.
Persisted == Unmarshal(MakeMap, file).Snippets

\* C9: as long as no Save fails, the table an invocation loads is the result
\* of the add and delete invocations that exited 0 before it, applied in
\* order to the first table; an add or delete that exits 0 leaves in the
\* file the table it has in memory; every other invocation leaves the file
\* as it found it.
C9_PersistedAfterEveryMutation ==
    (clean /\ current # "none") =>
        LET p == current
        IN  /\ pc[p] = "run" => Snippets[p] = ideal
            /\ (pc[p] = "done" /\ exitCode[p] = 0 /\ Mutates(p))
                  => file.kind \in {"object", "null"} /\ Persisted = Snippets[p]
            /\ (pc[p] = "done" /\ ~Mutates(p)) => file = startFile[p]

\* C9 restricted to tables of valid UTF-8: there it holds.
C9_ValidUTF8Persisted ==
    (clean /\ current # "none" /\ ValidTable(ideal) /\ ValidTable(Snippets[current]))
        => LET p == current
           IN  /\ pc[p] = "run" => Snippets[p] = ideal
               /\ (pc[p] = "done" /\ exitCode[p] = 0 /\ Mutates(p))
                     => file.kind \in {"object", "null"} /\ Persisted = Snippets[p]
               /\ (pc[p] = "done" /\ ~Mutates(p)) => file = startFile[p]

\* What the mutation of process p makes of table t.
Applied(p, t) ==
    IF argv[p][1] = "add" THEN Put(t, argv[p][2], Snippets[p].m[argv[p][2]])
    ELSE Remove(t, argv[p][2])

Other(p) == CHOOSE q \in Procs : q # p

\* Both processes loaded before either opened the file to save, and both
\* have added or deleted and exited 0.
RaceCase ==
    \A p \in Procs :
        pc[p] = "done" /\ exitCode[p] = 0 /\ Mutates(p) /\ fresh[p]

\* Each process has the first table with its own mutation alone.
OwnMutationOnly ==
    \A p \in Procs : Snippets[p] = Applied(p, Loaded(initFile))

\* The file does not hold the first table with both mutations, unless that
\* is the table of one of the two processes.
NotMerged ==
    \A p \in Procs :
        LET m == Applied(p, Applied(Other(p), Loaded(initFile)))
        IN  (\A q \in Procs : m # Snippets[q]) => file # MarshalIndent(m)

\* C10: after two processes that both loaded before either saved, the file
\* is exactly the table of the process whose Save wrote last, which lacks
\* the mutation of the other; it never holds both mutations.
C10_LastSaveWins ==
    RaceCase =>
        /\ file = MarshalIndent(Snippets[lastWriter])
        /\ OwnMutationOnly
        /\ NotMerged

\* C10 with the overlap told apart: so it is when the two Saves do not
\* overlap; when one process opens the file while the other is between its
\* open and its write, the file holds the text written last and after it
\* what of the other text is longer, which is no JSON.
C10_LastSaveWinsUnlessOverlap ==
    RaceCase =>
        LET w == lastWriter
            mine == MarshalIndent(Snippets[w])
            theirs == MarshalIndent(Snippets[Other(w)])
        IN  /\ file = IF overlap /\ DataLen(theirs) > DataLen(mine)
                      THEN Garbled(DataLen(theirs)) ELSE mine
            /\ OwnMutationOnly
            /\ NotMerged

\* The lost update: the Saves did not overlap, the file is the table of the last
\* writer, and the entry the other process added is in neither.
C10_LostUpdate ==
    /\ RaceCase /\ ~overlap
    /\ file = MarshalIndent(Snippets[lastWriter])
    /\ argv[Other(lastWriter)] = <<"add", <<98>>>>
    /\ <<98>> \notin Keys(Snippets[lastWriter])
    /\ Keys(Snippets[lastWriter]) = {<<97>>}

====
